---- MODULE Spec2Model ----
(***************************************************************************)
(* Delivery-estimate engine of pdp-estimated-delivery-date.                *)
(*                                                                         *)
(* One getDeliveryEstimate call is modelled as a step machine: each        *)
(* action is the code between two awaits.  Remote collaborators (the       *)
(* settings store, the postal-code lookup, the geolocation providers, the  *)
(* FedEx OAuth and rate endpoints) answer nondeterministically.            *)
(*                                                                         *)
(* Beside it: SpecCarrier runs getTransitTime alone, SpecUnit applies one  *)
(* helper function to arguments of its domain, SpecToken calls             *)
(* getAccessToken repeatedly on one carrier instance while time passes,    *)
(* and SpecLive adds what the runtime guarantees to happen.                *)
(*                                                                         *)
(* Representation of JavaScript values:                                    *)
(*   text         a sequence of non-empty string parts; "" is << >>;       *)
(*                concatenation is \o                                      *)
(*   postal code  a sequence of character codes: 0..9 a digit, NonDigit    *)
(*                any other character                                      *)
(*   number|null  an integer; NoNum stands for null / undefined            *)
(*   Date         [valid, day, tod]: day counts calendar days from         *)
(*                Sunday 2026-02-01, tod is the time of day; valid = FALSE *)
(*                is JavaScript's Invalid Date                             *)
(*   object       a record; an absent property is absent from its DOMAIN   *)
(***************************************************************************)
EXTENDS Integers, Sequences, FiniteSets, TLC

\* ------------------------------------------------------------ bounds

\* times of day are 0..MaxTod
MaxTod == 1
\* new Date() falls on calendar days 0..MaxNowDay
MaxNowDay == 6
\* handlingTimeDays of a settings record is 0..MaxHandling
MaxHandling == 1
\* a remote-quoted transit day count is 0..MaxQuoted
MaxQuoted == 2
\* an explicit remote delivery date lies 1..MaxAhead days after the ship date
MaxAhead == 2
\* addBusinessDays is applied to 0..MaxAdded days
MaxAdded == 8
\* the fallback estimate is computed for ship dates up to calendar day MaxShipDay
MaxShipDay == 27
\* getAccessToken calls that may overlap on one carrier instance
MaxCallers == 2
\* the clock of the token cache runs for MaxTicks ticks
MaxTicks == 5
\* getAccessToken is called up to MaxCalls times on one carrier instance
MaxCalls == 4

\* ------------------------------------------------------------ values

\* encodings, not values of the program
NoNum == 0 - 1
NonDigit == 9 + 1
Null == [null |-> TRUE]
InvalidDate == [valid |-> FALSE, day |-> 0, tod |-> 0]

Has(obj, field) == field \in DOMAIN obj

\* JavaScript truthiness of a text, of a number-or-null
TruthyText(t) == Len(t) > 0
TruthyNum(n) == n # NoNum /\ n # 0

\* a || b on numbers
OrNum(a, b) == IF TruthyNum(a) THEN a ELSE b

MkDate(d, t) == [valid |-> TRUE, day |-> d, tod |-> t]

\* a < b on Dates; any comparison with an Invalid Date is false
DateLess(a, b) ==
    /\ a.valid
    /\ b.valid
    /\ \/ a.day < b.day
       \/ a.day = b.day /\ a.tod < b.tod

\* mutant: the cutoff comparison is strict
DateGeq_Strict(a, b) ==
    /\ a.valid
    /\ b.valid
    /\ \/ a.day > b.day
       \/ a.day = b.day /\ a.tod > b.tod

\* a >= b on Dates
DateGeq(a, b) ==
    /\ a.valid
    /\ b.valid
    /\ \/ a.day > b.day
       \/ a.day = b.day /\ a.tod >= b.tod

\* Date.getDay(): 0 = Sunday .. 6 = Saturday; day 0 is a Sunday
GetDay(d) == d.day % 7

\* getDay() is neither 0 nor 6; NaN !== 0 && NaN !== 6 holds of an Invalid Date
NotWeekend(d) == IF d.valid THEN GetDay(d) # 0 /\ GetDay(d) # 6 ELSE TRUE

\* result.setDate(result.getDate() + 1): the time of day is kept
NextDay(d) == IF d.valid THEN [d EXCEPT !.day = @ + 1] ELSE d

\* Date.getMonth() and Date.getDate() on the calendar that starts 2026-02-01
GetMonth(d) == IF d.day < 28 THEN 1 ELSE IF d.day < 59 THEN 2 ELSE 3
GetDate(d) == IF d.day < 28 THEN d.day + 1 ELSE IF d.day < 59 THEN d.day - 27 ELSE d.day - 58
MonthShort(m) == IF m = 1 THEN "Feb" ELSE IF m = 2 THEN "Mar" ELSE "Apr"

\* ------------------------------------------------------------ business calendar

RECURSIVE AddLoop(_, _, _)
AddLoop(result, added, days) ==
    IF added < days
    THEN LET r == NextDay(result)
         IN AddLoop(r, IF NotWeekend(r) THEN added + 1 ELSE added, days)
    ELSE result

\* mutant: the start date itself is stepped over before counting
addBusinessDays_SkipsFirst(startDate, days) == AddLoop(NextDay(startDate), 0, days)

\* addBusinessDays of the orchestrator
addBusinessDays(startDate, days) == AddLoop(startDate, 0, days)

\* FedExCarrier.addBusinessDays, the carrier's own copy
carrierAddBusinessDays(startDate, days) == AddLoop(startDate, 0, days)

RECURSIVE CountLoop(_, _, _)
CountLoop(current, endDate, count) ==
    IF DateLess(current, endDate)
    THEN LET c == NextDay(current)
         IN CountLoop(c, endDate, IF NotWeekend(c) THEN count + 1 ELSE count)
    ELSE count

\* FedExCarrier.calculateBusinessDays
calculateBusinessDays(startDate, endDate) == CountLoop(startDate, endDate, 0)

RECURSIVE SkipWeekend(_)
SkipWeekend(d) == IF NotWeekend(d) THEN d ELSE SkipWeekend(NextDay(d))

\* calculateShipDate, with now = new Date() and the cutoff's time of day as inputs
calculateShipDate(now, handlingDays, cutoffTod) ==
    LET cutoff == MkDate(now.day, cutoffTod)
        start == IF DateGeq(now, cutoff) THEN NextDay(now) ELSE now
    IN SkipWeekend(AddLoop(start, 0, handlingDays))

\* ------------------------------------------------------------ zone heuristic

\* parseInt(zip.substring(0, 3), 10): the leading digits of the first three
\* characters; NoNum stands for NaN
RECURSIVE ParseDigits(_, _)
ParseDigits(s, acc) ==
    IF Len(s) = 0 \/ Head(s) = NonDigit
    THEN acc
    ELSE ParseDigits(Tail(s), (IF acc = NoNum THEN 0 ELSE acc) * 10 + Head(s))

ParseSCF(zip) == ParseDigits(SubSeq(zip, 1, IF Len(zip) < 3 THEN Len(zip) ELSE 3), NoNum)

Abs(x) == IF x < 0 THEN -x ELSE x

\* mutant: a difference of exactly 50 still counts as the same region
estimateTransitDays_Inclusive50(originZip, destZip) ==
    IF Len(originZip) = 0 \/ Len(destZip) = 0
    THEN 5
    ELSE LET originSCF == ParseSCF(originZip)
             destSCF == ParseSCF(destZip)
         IN IF originSCF = NoNum \/ destSCF = NoNum
            THEN 6
            ELSE LET scfDiff == Abs(originSCF - destSCF)
                 IN IF scfDiff <= 50 THEN 2
                    ELSE IF scfDiff < 200 THEN 3
                    ELSE IF scfDiff < 400 THEN 4
                    ELSE IF scfDiff < 600 THEN 5
                    ELSE 6

\* mutant: the difference is taken without Math.abs
estimateTransitDays_Signed(originZip, destZip) ==
    IF Len(originZip) = 0 \/ Len(destZip) = 0
    THEN 5
    ELSE LET originSCF == ParseSCF(originZip)
             destSCF == ParseSCF(destZip)
         IN IF originSCF = NoNum \/ destSCF = NoNum
            THEN 6
            ELSE LET scfDiff == originSCF - destSCF
                 IN IF scfDiff < 50 THEN 2
                    ELSE IF scfDiff < 200 THEN 3
                    ELSE IF scfDiff < 400 THEN 4
                    ELSE IF scfDiff < 600 THEN 5
                    ELSE 6

estimateTransitDays(originZip, destZip) ==
    IF Len(originZip) = 0 \/ Len(destZip) = 0
    THEN 5
    ELSE LET originSCF == ParseSCF(originZip)
             destSCF == ParseSCF(destZip)
         IN IF originSCF = NoNum \/ destSCF = NoNum
            THEN 6
            ELSE LET scfDiff == Abs(originSCF - destSCF)
                 IN IF scfDiff < 50 THEN 2
                    ELSE IF scfDiff < 200 THEN 3
                    ELSE IF scfDiff < 400 THEN 4
                    ELSE IF scfDiff < 600 THEN 5
                    ELSE 6

\* ------------------------------------------------------------ formatting

\* Date.toLocaleDateString('en-US', {month:'short', day:'numeric'})
LocaleDate(d) ==
    IF d.valid
    THEN [month |-> MonthShort(GetMonth(d)), dayOfMonth |-> GetDate(d)]
    ELSE [month |-> "Invalid Date", dayOfMonth |-> 0]

\* mutant: the month is always written twice
formatDateRange_AlwaysFull(minDate, maxDate) ==
    [fmt |-> "range", from |-> LocaleDate(minDate), to |-> LocaleDate(maxDate)]

formatDateRange(minDate, maxDate) ==
    IF minDate.valid /\ maxDate.valid /\ GetMonth(minDate) = GetMonth(maxDate)
    THEN [fmt |-> "range", from |-> LocaleDate(minDate), toDay |-> GetDate(maxDate)]
    ELSE [fmt |-> "range", from |-> LocaleDate(minDate), to |-> LocaleDate(maxDate)]

formatTransitDays(days) ==
    [fmt |-> "transit", from |-> days, to |-> days + 2, unit |-> "business days"]

\* mutant: the region comes before the city
formatLocation_RegionFirst(location) ==
    IF TruthyText(location.region)
    THEN location.region
    ELSE IF TruthyText(location.city) THEN location.city ELSE location.countryCode

formatLocation(location) ==
    IF TruthyText(location.city) /\ TruthyText(location.region)
    THEN location.city \o <<", ">> \o location.region
    ELSE IF TruthyText(location.city)
    THEN location.city
    ELSE IF TruthyText(location.region) THEN location.region ELSE location.countryCode

\* Date.toISOString() of a valid Date (it throws a RangeError on an Invalid Date)
ToISOString(d) == [iso |-> "YYYY-MM-DDTHH:mm:ss.sssZ", day |-> d.day, tod |-> d.tod]

\* ------------------------------------------------------------ carrier (pure parts)

RECURSIVE DropNonDigits(_)
DropNonDigits(s) ==
    IF Len(s) = 0 \/ Head(s) # NonDigit THEN s ELSE DropNonDigits(Tail(s))

\* FedExCarrier.parseTransitDays: the first run of digits of the description
parseTransitDays(description) ==
    IF Len(description) = 0 THEN NoNum ELSE ParseDigits(DropNonDigits(description), NoNum)

\* FedExCarrier.validateCredentials
validateCredentials(credentials) ==
    /\ TruthyText(credentials.apiKey)
    /\ TruthyText(credentials.secretKey)
    /\ TruthyText(credentials.accountNumber)

\* FedExCarrier.getNextBusinessDay
getNextBusinessDay(date) == SkipWeekend(NextDay(date))

CarrierName == "fedex"

CarrierFailure(message) == [success |-> FALSE, error |-> message, carrier |-> CarrierName]

\* mutant: the description is preferred over the quoted day count
CommitTransitDays_DescriptionFirst(commit) ==
    OrNum(parseTransitDays(IF Has(commit, "description") THEN commit.description ELSE << >>),
          IF Has(commit, "transitDays") THEN commit.transitDays ELSE NoNum)

\* commit?.transitTime?.transitDays || this.parseTransitDays(commit?.transitTime?.description)
CommitTransitDays(commit) ==
    OrNum(IF Has(commit, "transitDays") THEN commit.transitDays ELSE NoNum,
          parseTransitDays(IF Has(commit, "description") THEN commit.description ELSE << >>))

\* FedExCarrier.parseRateResponse.  data.kind: "null" a body that is not an object
\* (reading data.output throws inside the try), "empty" no rateReplyDetails,
\* "reply" a first rate reply whose commit is data.commit; commit.dayFormat is the
\* Date that new Date(commit.dateDetail.dayFormat) yields
parseRateResponse(data, shipDate) ==
    IF data.kind = "null"
    THEN CarrierFailure(<<"Failed to parse rate response">>)
    ELSE IF data.kind = "empty"
    THEN CarrierFailure(<<"No rate details in response">>)
    ELSE LET commit == data.commit
             transitDays == CommitTransitDays(commit)
             deliveryDateMin == carrierAddBusinessDays(shipDate, OrNum(transitDays, 3))
             deliveryDateMax == carrierAddBusinessDays(shipDate, OrNum(transitDays, 3) + 2)
         IN IF Has(commit, "dayFormat")
            THEN [success |-> TRUE,
                  deliveryDateMin |-> commit.dayFormat,
                  deliveryDateMax |-> carrierAddBusinessDays(commit.dayFormat, 1),
                  transitDays |-> OrNum(transitDays,
                                        calculateBusinessDays(shipDate, commit.dayFormat)),
                  serviceName |-> "FedEx Ground",
                  carrier |-> CarrierName]
            ELSE [success |-> TRUE,
                  deliveryDateMin |-> deliveryDateMin,
                  deliveryDateMax |-> deliveryDateMax,
                  transitDays |-> OrNum(transitDays, 5),
                  serviceName |-> "FedEx Ground",
                  carrier |-> CarrierName]

\* ------------------------------------------------------------ geolocation (pure parts)

\* isPrivateIP on one address: name is "localhost", "::1" or "" for a dotted
\* address with the given octets; '172.2' is a prefix of the text, so it also
\* matches 172.2.*, 172.20-29.* and 172.200-255.*
isPrivateIP(ip) ==
    \/ ip.name = "" /\ Len(ip.octets) = 0
    \/ ip.name = "localhost"
    \/ ip.name = "::1"
    \/ /\ ip.name = ""
       /\ Len(ip.octets) >= 2
       /\ \/ ip.octets[1] = 10
          \/ ip.octets[1] = 192 /\ ip.octets[2] = 168
          \/ ip.octets[1] = 172 /\ ip.octets[2] \in 16..19
          \/ ip.octets[1] = 172 /\ ip.octets[2] \in ({2} \cup (20..29) \cup (200..255))
          \/ ip.octets[1] = 172 /\ ip.octets[2] \in 30..31
          \/ ip.octets = <<127, 0, 0, 1>>

EmptyIP == [name |-> "", octets |-> << >>]

\* cleanIPAddress.  An address argument is [given, list]: given = FALSE is null,
\* list holds the comma-separated addresses (none for the empty string); the
\* ::ffff: prefix of an address is its field mapped
cleanIPAddress(ip) ==
    IF ~ip.given \/ Len(ip.list) = 0
    THEN EmptyIP
    ELSE LET first == ip.list[1]
             bare == [name |-> first.name, octets |-> first.octets]
         IN IF isPrivateIP(bare) THEN EmptyIP ELSE bare

\* GEOLOCATION_SERVICES, in list order
GEOLOCATION_SERVICES == <<"ip-api", "ipapi.co", "ipinfo.io">>

\* service.parse(data) of the i-th service; Null when it yields no location
ServiceParse(i, data) ==
    IF \/ i = 1 /\ data.status # "success"
       \/ i = 2 /\ data.error
       \/ i = 3 /\ ~TruthyText(data.city)
    THEN Null
    ELSE [city |-> data.city, region |-> data.region,
          postalCode |-> data.postalCode, countryCode |-> data.countryCode]

\* mutant: a location without a postal code is returned too
ServiceResult_AnyLocation(i, answer) ==
    LET location == IF answer.kind = "json" THEN ServiceParse(i, answer.data) ELSE Null
    IN IF location # Null
       THEN location @@ [source |-> GEOLOCATION_SERVICES[i]]
       ELSE Null

\* geolocation.js lines 81-108, one turn of the loop: what getLocationFromIP
\* returns on the i-th service's answer, Null when it goes on to the next service
ServiceResult(i, answer) ==
    LET location == IF answer.kind = "json" THEN ServiceParse(i, answer.data) ELSE Null
    IN IF location # Null /\ TruthyText(location.postalCode)
       THEN location @@ [source |-> GEOLOCATION_SERVICES[i]]
       ELSE Null

\* mutant: the default location carries no postal code
getDefaultLocation_NoPostalCode ==
    [city |-> <<"Kansas City">>, region |-> <<"MO">>, postalCode |-> << >>,
     countryCode |-> <<"US">>, source |-> "default"]

getDefaultLocation ==
    [city |-> <<"Kansas City">>, region |-> <<"MO">>, postalCode |-> <<6, 4, 1, 0, 6>>,
     countryCode |-> <<"US">>, source |-> "default"]

\* ------------------------------------------------------------ state

VARIABLES
    pc,             \* position of the running call
    caller,         \* "orchestrator": getDeliveryEstimate runs; "direct": getTransitTime alone
    db,             \* the shop's AppSettings row, Null when there is none
    postalCode,     \* argument postalCode, << >> when not given
    customerIP,     \* argument customerIP
    settings,       \* local settings
    destination,    \* local destination
    geoIdx,         \* index of the geolocation service the loop is at
    shipDate,       \* local shipDate (request.shipDate inside the carrier)
    credentials,    \* this.credentials of the carrier instance
    transitResult,  \* local transitResult
    result,         \* the value the call returned
    escaped,        \* an exception left the running call
    innerCaught,    \* the catch of lines 116-119 ran
    outerCaught,    \* the catch of lines 144-150 ran
    usedFallback,   \* generateFallbackEstimate produced the result
    lookups,        \* calls of getLocationFromPostalCode
    lookupReturned, \* what the lookup answered: "none" yet, "null" or "location"
    geoFailed,      \* geolocation services that yielded no location with a postal code
    geoQueried,     \* the geolocation requests issued, in order
    defaultUsed,    \* getDefaultLocation was called
    carrierCalls,   \* calls of carrier.getTransitTime
    tokenRequests,  \* POSTs to /oauth/token
    rateRequests,   \* POSTs to /rate/v1/rates/quotes
    faults,         \* what went wrong inside getTransitTime
    call,           \* a helper function applied on its own: its name and arguments
    outcome,        \* [returned |-> what that application returned], Null before it
    accessToken,    \* this.accessToken of a long-lived carrier instance
    tokenExpiry,    \* this.tokenExpiry of that instance
    clock,          \* Date.now(), in seconds
    tokenPc,        \* per getAccessToken call on that instance: "idle" or "exchange"
    exchanges,      \* POSTs to /oauth/token issued by that instance
    declared,       \* issue time and expires_in of the response the cache was set from
    lastCall        \* the latest cache check of getAccessToken: its number and outcome

\* the variables of one getDeliveryEstimate / getTransitTime call
estimateVars == <<pc, caller, db, postalCode, customerIP, settings, destination, geoIdx,
                  shipDate, credentials, transitResult, result, escaped, innerCaught,
                  outerCaught, usedFallback, lookups, lookupReturned, geoFailed, geoQueried,
                  defaultUsed, carrierCalls, tokenRequests, rateRequests, faults>>

\* a helper function applied on its own
unitVars == <<call, outcome>>

\* the token cache of a long-lived carrier instance
tokenVars == <<accessToken, tokenExpiry, clock, tokenPc, exchanges, declared, lastCall>>

vars == <<estimateVars, unitVars, tokenVars>>

\* what no step of a getDeliveryEstimate call changes: its arguments, the
\* settings store, and everything outside the call
inputVars == <<caller, db, postalCode, customerIP, unitVars, tokenVars>>
resolveVars == <<destination, geoIdx, lookups, lookupReturned, geoFailed, geoQueried, defaultUsed>>
carrierVars == <<credentials, carrierCalls, tokenRequests, rateRequests, faults>>
catchVars == <<escaped, innerCaught, outerCaught>>

\* ------------------------------------------------------------ input domains

Callers == 1..MaxCallers

SomeText == <<"x">>
Texts == {<< >>, SomeText}
TodSet == 0..MaxTod
Nows == {MkDate(d, t) : d \in 0..MaxNowDay, t \in TodSet}

WarehousePostalCode == <<2, 9, 4, 8, 3>>
OverridePostalCode == <<0, 0, 0, 0, 0>>

\* AppSettings rows: the columns of the migration the engine reads
SettingsRows ==
    [isEnabled : {TRUE}, showExactDates : BOOLEAN, handlingTimeDays : 0..MaxHandling,
     cutoffTime : {MaxTod}, warehousePostalCode : {WarehousePostalCode},
     fedexApiKey : Texts, fedexSecretKey : Texts, fedexAccountNumber : Texts]
    \cup
    [isEnabled : {FALSE}, showExactDates : {TRUE}, handlingTimeDays : {MaxHandling},
     cutoffTime : {MaxTod}, warehousePostalCode : {WarehousePostalCode},
     fedexApiKey : Texts, fedexSecretKey : {SomeText}, fedexAccountNumber : {SomeText}]

PublicIP == [mapped |-> FALSE, name |-> "", octets |-> <<203, 0, 113, 7>>]
PrivateIP == [mapped |-> TRUE, name |-> "", octets |-> <<192, 168, 1, 1>>]
CustomerIPs ==
    {[given |-> FALSE, list |-> << >>],
     [given |-> TRUE, list |-> << >>],
     [given |-> TRUE, list |-> <<PrivateIP>>],
     [given |-> TRUE, list |-> <<PublicIP, PrivateIP>>]}

\* what a geolocation service may answer: the request fails (network error,
\* 3 s timeout, body that is no JSON), it answers non-OK, or it answers a JSON
\* body; the body's fields are whatever the remote sends
GeoBodies ==
    {[status |-> "success", error |-> FALSE, city |-> <<"Summerville">>, region |-> <<"SC">>,
      postalCode |-> <<2, 9, 4, 8, 6>>, countryCode |-> <<"US">>],
     [status |-> "success", error |-> FALSE, city |-> <<"Summerville">>, region |-> <<"SC">>,
      postalCode |-> << >>, countryCode |-> <<"US">>],
     [status |-> "success", error |-> FALSE, city |-> << >>, region |-> << >>,
      postalCode |-> <<9, 0, 2, 1, 0>>, countryCode |-> << >>],
     [status |-> "fail", error |-> TRUE, city |-> << >>, region |-> << >>,
      postalCode |-> << >>, countryCode |-> << >>]}
GeoAnswers ==
    {[kind |-> "failed"], [kind |-> "notok"]} \cup {[kind |-> "json", data |-> b] : b \in GeoBodies}

\* what the postal-code lookup may answer for a code: a location or null
LookupAnswers(code) ==
    {Null,
     [city |-> <<"Beverly Hills">>, region |-> <<"CA">>, postalCode |-> code,
      countryCode |-> <<"US">>, source |-> "postal-code-lookup"]}

\* transit descriptions: "2 days", "days", "in 1 day" and "0 days"
Descriptions == {<<2, NonDigit>>, <<NonDigit, NonDigit>>, <<NonDigit, 1>>, <<0, NonDigit>>}

\* the commit object of a rate reply, given the ship date the request carried
Commits(ship) ==
    LET quoted == {[transitDays |-> n] : n \in 0..MaxQuoted} \cup {<< >>}
        described == {[description |-> d] : d \in Descriptions} \cup {<< >>}
        dated == {[dayFormat |-> MkDate(ship.day + k, t)] :
                      k \in {0 - 1} \cup 1..MaxAhead, t \in TodSet}
                     \cup {[dayFormat |-> InvalidDate], << >>}
    IN {q @@ d @@ e : q \in quoted, d \in described, e \in dated}

RateBodies(ship) ==
    {[kind |-> "null"], [kind |-> "empty"]} \cup {[kind |-> "reply", commit |-> c] : c \in Commits(ship)}

\* ------------------------------------------------------------ exceptions

ErrNotConfigured == <<"App not configured for this shop">>
ErrDisabled == <<"Delivery estimates are disabled">>
ErrGeneric == <<"Failed to calculate delivery estimate">>

\* mutant: the response is formatted after the try block
OuterTrySteps_FormatOutside == {"settings", "resolve", "prepare", "carrier", "fallback"}

\* the steps of getDeliveryEstimate the try of lines 30-144 encloses
OuterTrySteps == {"settings", "resolve", "prepare", "carrier", "fallback", "format"}

\* the steps the try of lines 88-116 encloses
InnerTrySteps == {"carrier"}

\* mutant: getAccessToken is awaited before the try block
CarrierTrySteps_TokenOutside == {"validate", "rate", "parse"}

\* the steps of getTransitTime the try of lines 171-246 encloses
CarrierTrySteps == {"validate", "token", "rate", "parse"}

\* error.message of the exception a step of getDeliveryEstimate raises: the
\* settings read fails inside the database client, toISOString throws a
\* RangeError, a carrier throws what it likes
ExceptionMessage(step) ==
    IF step = "settings" THEN <<"database detail">>
    ELSE IF step = "format" THEN <<"Invalid time value">>
    ELSE <<"carrier detail">>

\* mutant: the boundary reports error.message
BoundaryError_Message(message) == message

\* line 148: the error text of the boundary catch, whatever was caught
BoundaryError(message) == ErrGeneric

\* an exception raised at a step of getDeliveryEstimate: the innermost
\* enclosing catch handles it, or it leaves the call
Raise(step) ==
    IF step \in InnerTrySteps
    THEN /\ transitResult' = [success |-> FALSE]
         /\ innerCaught' = TRUE
         /\ pc' = "decide"
         /\ UNCHANGED <<result, escaped, outerCaught>>
    ELSE IF step \in OuterTrySteps
    THEN /\ result' = [success |-> FALSE, error |-> BoundaryError(ExceptionMessage(step))]
         /\ outerCaught' = TRUE
         /\ pc' = "done"
         /\ UNCHANGED <<transitResult, escaped, innerCaught>>
    ELSE /\ escaped' = TRUE
         /\ pc' = "done"
         /\ UNCHANGED <<transitResult, result, innerCaught, outerCaught>>

\* getDeliveryEstimate returns value
Return(value) ==
    /\ result' = value
    /\ pc' = "done"

\* getTransitTime returns response to its caller
CarrierReturn(response) ==
    /\ transitResult' = response
    /\ pc' = IF caller = "orchestrator" THEN "decide" ELSE "cdone"
    /\ UNCHANGED <<result, catchVars>>

\* an exception with the given message raised at a step of getTransitTime
CarrierRaise(step, message) ==
    IF step \in CarrierTrySteps
    THEN CarrierReturn(CarrierFailure(message))
    ELSE IF caller = "orchestrator"
    THEN Raise("carrier")
    ELSE /\ escaped' = TRUE
         /\ pc' = "cdone"
         /\ UNCHANGED <<transitResult, result, innerCaught, outerCaught>>

\* ------------------------------------------------------------ getDeliveryEstimate

\* mutant: the isEnabled check is missing
ConfigurationError_NoEnabledCheck(row) == IF row = Null THEN ErrNotConfigured ELSE << >>

\* lines 34-46: the error the configuration checks end the call with, << >> for none
ConfigurationError(row) ==
    IF row = Null
    THEN ErrNotConfigured
    ELSE IF ~row.isEnabled THEN ErrDisabled ELSE << >>

\* mutant: the account number is not checked
HasCarrierCredentials_NoAccount(sett) ==
    /\ TruthyText(sett.fedexApiKey)
    /\ TruthyText(sett.fedexSecretKey)

\* line 87: all three credential fields are truthy
HasCarrierCredentials(sett) ==
    /\ TruthyText(sett.fedexApiKey)
    /\ TruthyText(sett.fedexSecretKey)
    /\ TruthyText(sett.fedexAccountNumber)

\* mutant: the destination is not resolved before the shipment is prepared
ResolveStep_Skipped(code) == "prepare"

\* lines 48-70: the way the destination is resolved, awaited before line 72
ResolveStep(code) == IF TruthyText(code) THEN "lookup" ELSE "geo"

\* lines 32-46: await getAppSettings(shop), then the two configuration checks
GetAppSettings ==
    /\ pc = "start"
    /\ \E read \in {"row", "throws"} :
         IF read = "throws"
         THEN /\ Raise("settings")
              /\ UNCHANGED settings
         ELSE /\ settings' = db
              /\ IF TruthyText(ConfigurationError(db))
                 THEN Return([success |-> FALSE, error |-> ConfigurationError(db)])
                 ELSE /\ pc' = ResolveStep(postalCode)
                      /\ UNCHANGED result
              /\ UNCHANGED <<transitResult, catchVars>>
    /\ UNCHANGED <<inputVars, resolveVars, shipDate, carrierVars, usedFallback>>

\* lines 50-63: await getLocationFromPostalCode(postalCode), degraded location on null
LookupPostalCode ==
    /\ pc = "lookup"
    /\ lookups' = lookups + 1
    /\ \E answer \in LookupAnswers(postalCode) :
         /\ lookupReturned' = IF answer = Null THEN "null" ELSE "location"
         /\ destination' = IF answer = Null
                           THEN [postalCode |-> postalCode, city |-> << >>, region |-> << >>,
                                 countryCode |-> <<"US">>]
                           ELSE answer
    /\ pc' = "prepare"
    /\ UNCHANGED <<inputVars, settings, geoIdx, geoFailed, geoQueried, defaultUsed, shipDate,
                   carrierVars,
                   transitResult, result, catchVars, usedFallback>>

\* geolocation.js lines 80-108, one turn of the loop of getLocationFromIP, and
\* after the last service lines 110-111 with lines 67-69 of getDeliveryEstimate
QueryGeolocationService ==
    /\ pc = "geo"
    /\ geoQueried' = Append(geoQueried, [service |-> GEOLOCATION_SERVICES[geoIdx],
                                         ip |-> cleanIPAddress(customerIP)])
    /\ \E answer \in GeoAnswers :
         LET found == ServiceResult(geoIdx, answer)
         IN IF found # Null
            THEN /\ destination' = found
                 /\ pc' = "prepare"
                 /\ UNCHANGED <<geoIdx, geoFailed, defaultUsed>>
            ELSE IF geoIdx < Len(GEOLOCATION_SERVICES)
            THEN /\ geoIdx' = geoIdx + 1
                 /\ geoFailed' = geoFailed + 1
                 /\ UNCHANGED <<pc, destination, defaultUsed>>
            ELSE /\ destination' = getDefaultLocation
                 /\ defaultUsed' = TRUE
                 /\ geoFailed' = geoFailed + 1
                 /\ pc' = "prepare"
                 /\ UNCHANGED geoIdx
    /\ UNCHANGED <<inputVars, settings, lookups, lookupReturned, shipDate, carrierVars, transitResult, result,
                   catchVars, usedFallback>>

\* lines 72-108: origin, calculateShipDate at now = new Date(), the credential
\* check, createCarrier and the call of carrier.getTransitTime
PrepareShipment ==
    /\ pc = "prepare"
    /\ \E now \in Nows :
         shipDate' = calculateShipDate(now, settings.handlingTimeDays, settings.cutoffTime)
    /\ IF HasCarrierCredentials(settings)
       THEN /\ credentials' = [apiKey |-> settings.fedexApiKey,
                               secretKey |-> settings.fedexSecretKey,
                               accountNumber |-> settings.fedexAccountNumber]
            /\ carrierCalls' = carrierCalls + 1
            /\ pc' = "cstart"
            /\ UNCHANGED transitResult
       ELSE /\ transitResult' = Null
            /\ pc' = "decide"
            /\ UNCHANGED <<credentials, carrierCalls>>
    /\ UNCHANGED <<inputVars, settings, resolveVars, tokenRequests, rateRequests, faults, result,
                   catchVars, usedFallback>>

\* lines 116-119: the carrier call threw instead of returning a response
CarrierCallThrows ==
    /\ pc = "cstart"
    /\ caller = "orchestrator"
    /\ Raise("carrier")
    /\ UNCHANGED <<inputVars, settings, resolveVars, shipDate, carrierVars, usedFallback>>

\* mutant: the fallback estimate is not marked
generateFallbackEstimate_Unmarked(origin, dest, ship, sett) ==
    LET transitDays == estimateTransitDays(origin.postalCode, dest.postalCode)
        deliveryDateMin == addBusinessDays(ship, transitDays)
        deliveryDateMax == addBusinessDays(ship, transitDays + 2)
        dateText == IF sett.showExactDates
                    THEN formatDateRange(deliveryDateMin, deliveryDateMax)
                    ELSE formatTransitDays(transitDays)
    IN [success |-> TRUE,
        deliveryDateMin |-> ToISOString(deliveryDateMin),
        deliveryDateMax |-> ToISOString(deliveryDateMax),
        displayText |-> [prefix |-> "Arrives ", dateText |-> dateText],
        location |-> formatLocation(dest),
        transitDays |-> transitDays]

\* mutant: the window closes one business day after it opens
generateFallbackEstimate_NarrowWindow(origin, dest, ship, sett) ==
    LET transitDays == estimateTransitDays(origin.postalCode, dest.postalCode)
        deliveryDateMin == addBusinessDays(ship, transitDays)
        deliveryDateMax == addBusinessDays(ship, transitDays + 1)
        dateText == IF sett.showExactDates
                    THEN formatDateRange(deliveryDateMin, deliveryDateMax)
                    ELSE formatTransitDays(transitDays)
    IN [success |-> TRUE,
        deliveryDateMin |-> ToISOString(deliveryDateMin),
        deliveryDateMax |-> ToISOString(deliveryDateMax),
        displayText |-> [prefix |-> "Arrives ", dateText |-> dateText],
        location |-> formatLocation(dest),
        transitDays |-> transitDays,
        isFallback |-> TRUE]

\* lines 223-244
generateFallbackEstimate(origin, dest, ship, sett) ==
    LET transitDays == estimateTransitDays(origin.postalCode, dest.postalCode)
        deliveryDateMin == addBusinessDays(ship, transitDays)
        deliveryDateMax == addBusinessDays(ship, transitDays + 2)
        dateText == IF sett.showExactDates
                    THEN formatDateRange(deliveryDateMin, deliveryDateMax)
                    ELSE formatTransitDays(transitDays)
    IN [success |-> TRUE,
        deliveryDateMin |-> ToISOString(deliveryDateMin),
        deliveryDateMax |-> ToISOString(deliveryDateMax),
        displayText |-> [prefix |-> "Arrives ", dateText |-> dateText],
        location |-> formatLocation(dest),
        transitDays |-> transitDays,
        isFallback |-> TRUE]

\* lines 130-143, once toISOString has not thrown
FormatEstimate(dest, transit, sett) ==
    LET dateText == IF sett.showExactDates
                    THEN formatDateRange(transit.deliveryDateMin, transit.deliveryDateMax)
                    ELSE formatTransitDays(transit.transitDays)
    IN [success |-> TRUE,
        deliveryDateMin |-> ToISOString(transit.deliveryDateMin),
        deliveryDateMax |-> ToISOString(transit.deliveryDateMax),
        displayText |-> [prefix |-> "Arrives ", dateText |-> dateText],
        location |-> formatLocation(dest),
        transitDays |-> transit.transitDays]

\* line 124: !transitResult || !transitResult.success
TakesFallback(transit) == transit = Null \/ ~transit.success

\* lines 124-143: the fallback decision, then the fallback estimate or the
\* formatted carrier estimate; toISOString throws on an Invalid Date
Decide ==
    /\ pc = "decide"
    /\ IF TakesFallback(transitResult)
       THEN /\ Return(generateFallbackEstimate([postalCode |-> settings.warehousePostalCode],
                                               destination, shipDate, settings))
            /\ usedFallback' = TRUE
            /\ UNCHANGED <<transitResult, catchVars>>
       ELSE IF transitResult.deliveryDateMin.valid /\ transitResult.deliveryDateMax.valid
       THEN /\ Return(FormatEstimate(destination, transitResult, settings))
            /\ UNCHANGED <<transitResult, catchVars, usedFallback>>
       ELSE /\ Raise("format")
            /\ UNCHANGED usedFallback
    /\ UNCHANGED <<inputVars, settings, resolveVars, shipDate, carrierVars>>

\* ------------------------------------------------------------ FedExCarrier.getTransitTime

\* texts a remote may put in an error body
RemoteTexts == {<< >>, <<"remote detail">>}

\* lines 171-180: validateCredentials, then getAccessToken of a new instance
\* (nothing cached) posts to /oauth/token
CarrierStart ==
    /\ pc = "cstart"
    /\ IF validateCredentials(credentials)
       THEN /\ tokenRequests' = tokenRequests + 1
            /\ pc' = "token"
            /\ UNCHANGED <<transitResult, result, catchVars, faults>>
       ELSE /\ CarrierReturn(CarrierFailure(<<"FedEx credentials not configured">>))
            /\ faults' = faults \cup {"credentials"}
            /\ UNCHANGED tokenRequests
    /\ UNCHANGED <<inputVars, settings, resolveVars, shipDate, credentials, carrierCalls,
                   rateRequests, usedFallback>>

\* lines 140-162 and 181-232: the token exchange answers; on a token the rate
\* request is built (request.shipDate || getNextBusinessDay(new Date())) and posted
TokenResponse ==
    /\ pc = "token"
    /\ \E answer \in {"rejected", "notok", "nojson", "ok"} :
         IF answer = "ok"
         THEN /\ IF shipDate = Null
                 THEN \E now \in Nows : shipDate' = getNextBusinessDay(now)
                 ELSE UNCHANGED shipDate
              /\ rateRequests' = rateRequests + 1
              /\ pc' = "rate"
              /\ UNCHANGED <<transitResult, result, catchVars, faults>>
         ELSE /\ faults' = faults \cup {IF answer = "rejected" THEN "network" ELSE "token"}
              /\ \E body \in RemoteTexts :
                   CarrierRaise("token",
                                IF answer = "rejected" THEN <<"fetch failed">>
                                ELSE IF answer = "notok" THEN <<"FedEx OAuth failed: ">> \o body
                                ELSE <<"Unexpected end of JSON input">>)
              /\ UNCHANGED <<shipDate, rateRequests>>
    /\ UNCHANGED <<inputVars, settings, resolveVars, credentials, carrierCalls, tokenRequests,
                   usedFallback>>

\* lines 234-253: the rate request answers
RateResponse ==
    /\ pc = "rate"
    /\ \E answer \in {"rejected", "notok", "nojson", "ok"} :
         IF answer = "ok"
         THEN \E data \in RateBodies(shipDate) :
                /\ CarrierReturn(parseRateResponse(data, shipDate))
                /\ faults' = faults \cup (IF data.kind = "null" THEN {"malformed"}
                                          ELSE IF data.kind = "empty" THEN {"norates"} ELSE {})
         ELSE IF answer = "notok"
         THEN /\ \E message \in RemoteTexts :
                   CarrierReturn(CarrierFailure(IF TruthyText(message) THEN message
                                                ELSE <<"Failed to get rate quote">>))
              /\ faults' = faults \cup {"notok"}
         ELSE /\ CarrierRaise("rate", IF answer = "rejected" THEN <<"fetch failed">>
                                      ELSE <<"Unexpected end of JSON input">>)
              /\ faults' = faults \cup {IF answer = "rejected" THEN "network" ELSE "malformed"}
    /\ UNCHANGED <<inputVars, settings, resolveVars, shipDate, credentials, carrierCalls,
                   tokenRequests, rateRequests, usedFallback>>

\* ------------------------------------------------------------ FedExCarrier.getAccessToken

\* line 160: the seconds taken off the declared lifetime
SafetyMargin == 300

\* the clock advances in steps of half the margin
TickSeconds == SafetyMargin \div 2

\* access_token of an exchange response; << >> when the body has none
Tokens == {<< >>, <<"token-a">>, <<"token-b">>}

\* expires_in of an exchange response, in seconds; NoNum when the body has none
ExpiresIn ==
    {NoNum, 0, SafetyMargin, SafetyMargin + TickSeconds, SafetyMargin + 2 * TickSeconds}

\* mutant: the whole declared lifetime is used
TokenExpiry_NoMargin(now, expiresIn) ==
    IF expiresIn = NoNum
    THEN [valid |-> FALSE, at |-> 0]
    ELSE [valid |-> TRUE, at |-> now + expiresIn]

\* line 160: new Date(Date.now() + (data.expires_in - 300) * 1000), in seconds;
\* an Invalid Date when expires_in is missing
TokenExpiry(now, expiresIn) ==
    IF expiresIn = NoNum
    THEN [valid |-> FALSE, at |-> 0]
    ELSE [valid |-> TRUE, at |-> now + (expiresIn - SafetyMargin)]

\* line 136: this.accessToken && this.tokenExpiry && new Date() < this.tokenExpiry
CacheValid ==
    /\ TruthyText(accessToken)
    /\ tokenExpiry # Null
    /\ tokenExpiry.valid
    /\ clock < tokenExpiry.at

\* what is recorded of the latest getAccessToken call: its number, whether the
\* cache check answered it, and the token the check returned
NoTokenCall == [n |-> 0, fromCache |-> FALSE, token |-> << >>]

\* lines 135-150: the cache check; the cached token is returned, or the
\* exchange request is posted
GetAccessToken ==
    \E c \in Callers :
        /\ tokenPc[c] = "idle"
        /\ lastCall.n < MaxCalls
        /\ IF CacheValid
           THEN /\ lastCall' = [n |-> lastCall.n + 1, fromCache |-> TRUE, token |-> accessToken]
                /\ UNCHANGED <<tokenPc, exchanges>>
           ELSE /\ lastCall' = [n |-> lastCall.n + 1, fromCache |-> FALSE, token |-> << >>]
                /\ tokenPc' = [tokenPc EXCEPT ![c] = "exchange"]
                /\ exchanges' = exchanges + 1
        /\ UNCHANGED <<estimateVars, unitVars, accessToken, tokenExpiry, clock, declared>>

\* lines 152-162: the exchange answers; a failure is thrown and leaves the cache
\* alone, a response sets this.accessToken and this.tokenExpiry and the call
\* returns this.accessToken
ExchangeResponse ==
    \E c \in Callers :
        /\ tokenPc[c] = "exchange"
        /\ tokenPc' = [tokenPc EXCEPT ![c] = "idle"]
        /\ \E answer \in {"rejected", "notok", "nojson", "ok"} :
             IF answer = "ok"
             THEN \E token \in Tokens, expiresIn \in ExpiresIn :
                    /\ accessToken' = token
                    /\ tokenExpiry' = TokenExpiry(clock, expiresIn)
                    /\ declared' = [issuedAt |-> clock, expiresIn |-> expiresIn,
                                    token |-> token]
             ELSE UNCHANGED <<accessToken, tokenExpiry, declared>>
        /\ UNCHANGED <<estimateVars, unitVars, clock, exchanges, lastCall>>

\* time passes
Tick ==
    /\ clock < MaxTicks * TickSeconds
    /\ clock' = clock + TickSeconds
    /\ UNCHANGED <<estimateVars, unitVars, accessToken, tokenExpiry, tokenPc, exchanges,
                   declared, lastCall>>

\* ------------------------------------------------------------ helper functions on their own

\* the weekday sets a merchant can save as processingDays (default Mon-Fri); the
\* engine is handed handlingTimeDays and cutoffTime only
ProcessingDaySets == {{1, 2, 3, 4, 5}, {1, 2, 3, 4}, {0, 1, 2, 3, 4, 5, 6}}

\* postal codes whose three-digit prefixes sit on both sides of every threshold
\* of the zone heuristic, the empty code, and a code that does not start with digits
ZipPrefixes ==
    {<<0, 0, 0>>, <<0, 4, 9>>, <<0, 5, 0>>, <<1, 9, 9>>, <<2, 0, 0>>, <<3, 9, 9>>,
     <<4, 0, 0>>, <<5, 9, 9>>, <<6, 0, 0>>, <<9, 9, 9>>}
ZipCodes ==
    {prefix \o <<0, 1>> : prefix \in ZipPrefixes}
        \cup {<< >>, <<NonDigit, 1, NonDigit, 0, NonDigit, 1>>}

\* ship dates up to the last day of the first month: weekdays, as calculateShipDate
\* and getNextBusinessDay return them
ShipDates ==
    {MkDate(d, t) : d \in {x \in (MaxShipDay - 13)..MaxShipDay : x % 7 \notin {0, 6}},
                    t \in TodSet}

\* destinations two, four and six estimated transit days from the warehouse, one
\* of them with a prefix 30 above the warehouse's
FallbackDestinations ==
    {[city |-> <<"Summerville">>, region |-> <<"SC">>, postalCode |-> <<2, 9, 4, 8, 6>>,
      countryCode |-> <<"US">>],
     [city |-> <<"Tallahassee">>, region |-> <<"FL">>, postalCode |-> <<3, 2, 4, 0, 1>>,
      countryCode |-> <<"US">>],
     [city |-> <<"Beverly Hills">>, region |-> <<"CA">>, postalCode |-> <<9, 0, 2, 1, 0>>,
      countryCode |-> <<"US">>],
     getDefaultLocation}

\* the applications of helper functions the model explores
UnitCalls ==
    [fn : {"calculateShipDate"}, now : Nows, handlingDays : 0..MaxHandling,
     cutoffTod : TodSet, processingDays : ProcessingDaySets]
    \cup
    [fn : {"addBusinessDays", "carrierAddBusinessDays"}, startDate : Nows,
     days : 0..MaxAdded]
    \cup
    [fn : {"estimateTransitDays"}, originZip : ZipCodes, destZip : ZipCodes]
    \cup
    [fn : {"calculateBusinessDays"}, startDate : Nows, endDate : Nows]
    \cup
    [fn : {"formatLocation"},
     location : [city : {<< >>, <<"Summerville">>}, region : {<< >>, <<"SC">>},
                 postalCode : {WarehousePostalCode}, countryCode : {<< >>, <<"US">>}]]
    \cup
    [fn : {"getLocationFromIP"}, ipAddress : CustomerIPs,
     answers : [1..Len(GEOLOCATION_SERVICES) -> GeoAnswers]]
    \cup
    [fn : {"generateFallbackEstimate"}, dest : FallbackDestinations, ship : ShipDates,
     showExactDates : BOOLEAN]
    \cup
    {[fn |-> "parseRateResponse", data |-> d, shipDate |-> ship] :
        d \in UNION {RateBodies(x) : x \in {SkipWeekend(n) : n \in Nows}},
        ship \in {SkipWeekend(n) : n \in Nows}}

\* the application returns
Returned(x) ==
    /\ outcome = Null
    /\ outcome' = [returned |-> x]
    /\ UNCHANGED <<estimateVars, call, tokenVars>>

\* delivery-estimate.js line 82: the settings' processingDays are not passed
CallCalculateShipDate ==
    /\ call.fn = "calculateShipDate"
    /\ Returned(calculateShipDate(call.now, call.handlingDays, call.cutoffTod))

CallAddBusinessDays ==
    /\ call.fn = "addBusinessDays"
    /\ Returned(addBusinessDays(call.startDate, call.days))

CallCarrierAddBusinessDays ==
    /\ call.fn = "carrierAddBusinessDays"
    /\ Returned(carrierAddBusinessDays(call.startDate, call.days))

CallEstimateTransitDays ==
    /\ call.fn = "estimateTransitDays"
    /\ Returned(estimateTransitDays(call.originZip, call.destZip))

CallGenerateFallbackEstimate ==
    /\ call.fn = "generateFallbackEstimate"
    /\ Returned(generateFallbackEstimate([postalCode |-> WarehousePostalCode], call.dest,
                                         call.ship,
                                         [showExactDates |-> call.showExactDates]))

CallParseRateResponse ==
    /\ call.fn = "parseRateResponse"
    /\ Returned(parseRateResponse(call.data, call.shipDate))

CallCalculateBusinessDays ==
    /\ call.fn = "calculateBusinessDays"
    /\ Returned(calculateBusinessDays(call.startDate, call.endDate))

CallFormatLocation ==
    /\ call.fn = "formatLocation"
    /\ Returned(formatLocation(call.location))

\* geolocation.js lines 76-112, one turn of the loop of getLocationFromIP; the
\* services answer call.answers
CallGetLocationFromIP ==
    /\ call.fn = "getLocationFromIP"
    /\ outcome = Null
    /\ geoQueried' = Append(geoQueried, [service |-> GEOLOCATION_SERVICES[geoIdx],
                                         ip |-> cleanIPAddress(call.ipAddress)])
    /\ LET found == ServiceResult(geoIdx, call.answers[geoIdx])
       IN IF found # Null
          THEN /\ outcome' = [returned |-> found]
               /\ UNCHANGED geoIdx
          ELSE IF geoIdx < Len(GEOLOCATION_SERVICES)
          THEN /\ geoIdx' = geoIdx + 1
               /\ UNCHANGED outcome
          ELSE /\ outcome' = [returned |-> Null]
               /\ UNCHANGED geoIdx
    /\ UNCHANGED <<pc, caller, db, postalCode, customerIP, settings, destination, shipDate,
                   credentials, transitResult, result, catchVars, usedFallback, lookups,
                   lookupReturned, geoFailed, defaultUsed, carrierCalls, tokenRequests,
                   rateRequests, faults, call, tokenVars>>

\* ------------------------------------------------------------ specifications

\* nothing is applied on its own
QuietUnit ==
    /\ call = Null
    /\ outcome = Null

\* no long-lived carrier instance is in use
QuietToken ==
    /\ accessToken = << >>
    /\ tokenExpiry = Null
    /\ clock = 0
    /\ tokenPc = [c \in Callers |-> "idle"]
    /\ exchanges = 0
    /\ declared = Null
    /\ lastCall = NoTokenCall

Quiet ==
    /\ settings = Null
    /\ destination = Null
    /\ geoIdx = 1
    /\ transitResult = Null
    /\ result = Null
    /\ escaped = FALSE
    /\ innerCaught = FALSE
    /\ outerCaught = FALSE
    /\ usedFallback = FALSE
    /\ lookups = 0
    /\ lookupReturned = "none"
    /\ geoFailed = 0
    /\ faults = {}
    /\ geoQueried = << >>
    /\ defaultUsed = FALSE
    /\ carrierCalls = 0
    /\ tokenRequests = 0
    /\ rateRequests = 0

\* one call getDeliveryEstimate(shop, customerIP, postalCode)
Init ==
    /\ pc = "start"
    /\ caller = "orchestrator"
    /\ db \in SettingsRows \cup {Null}
    /\ postalCode \in {<< >>, OverridePostalCode}
    /\ customerIP \in CustomerIPs
    /\ shipDate = Null
    /\ credentials = Null
    /\ Quiet
    /\ QuietUnit
    /\ QuietToken

\* getDeliveryEstimate with the carrier createCarrier builds, a FedExCarrier
Next ==
    \/ GetAppSettings
    \/ LookupPostalCode
    \/ QueryGeolocationService
    \/ PrepareShipment
    \/ CarrierStart
    \/ TokenResponse
    \/ RateResponse
    \/ Decide

Spec == Init /\ [][Next]_vars

\* what the runtime guarantees of one call: code that is ready to run runs, the
\* settings read and the postal-code lookup answer, and a geolocation fetch ends
\* within its 3 s abort signal.  The two fetch calls of the carrier (lines
\* 140-150 and 224-232 of base-carrier.js) carry no timeout and no abort signal:
\* nothing guarantees that TokenResponse or RateResponse ever happens
Scheduling ==
    /\ WF_vars(GetAppSettings)
    /\ WF_vars(LookupPostalCode)
    /\ WF_vars(QueryGeolocationService)
    /\ WF_vars(PrepareShipment)
    /\ WF_vars(CarrierStart)
    /\ WF_vars(Decide)

\* one call for a configured, enabled shop with carrier credentials
InitLive ==
    /\ Init
    /\ db # Null
    /\ db.isEnabled
    /\ HasCarrierCredentials(db)
    /\ customerIP = [given |-> TRUE, list |-> <<PublicIP, PrivateIP>>]

SpecLive == InitLive /\ [][Next]_vars /\ Scheduling

\* getDeliveryEstimate with a carrier held only to the BaseCarrier contract,
\* whose getTransitTime may throw
NextContract ==
    \/ Next
    \/ CarrierCallThrows

SpecContract == Init /\ [][NextContract]_vars

\* one call getTransitTime(request) on a new FedExCarrier, with any credentials
InitCarrier ==
    /\ pc = "cstart"
    /\ caller = "direct"
    /\ db = Null
    /\ postalCode = << >>
    /\ customerIP = [given |-> FALSE, list |-> << >>]
    /\ shipDate \in {Null} \cup {SkipWeekend(n) : n \in Nows}
    /\ credentials \in [apiKey : Texts, secretKey : Texts, accountNumber : Texts]
    /\ Quiet
    /\ QuietUnit
    /\ QuietToken

NextCarrier ==
    \/ CarrierStart
    \/ TokenResponse
    \/ RateResponse

SpecCarrier == InitCarrier /\ [][NextCarrier]_vars

\* no getDeliveryEstimate or getTransitTime call is running
NoCall ==
    /\ pc = "idle"
    /\ caller = "none"
    /\ db = Null
    /\ postalCode = << >>
    /\ customerIP = [given |-> FALSE, list |-> << >>]
    /\ shipDate = Null
    /\ credentials = Null
    /\ Quiet

\* one helper function applied once to arguments of its domain
InitUnit ==
    /\ NoCall
    /\ QuietToken
    /\ call \in UnitCalls
    /\ outcome = Null

NextUnit ==
    \/ CallCalculateShipDate
    \/ CallAddBusinessDays
    \/ CallCarrierAddBusinessDays
    \/ CallEstimateTransitDays
    \/ CallGenerateFallbackEstimate
    \/ CallParseRateResponse
    \/ CallCalculateBusinessDays
    \/ CallGetLocationFromIP
    \/ CallFormatLocation

SpecUnit == InitUnit /\ [][NextUnit]_vars

\* getAccessToken called again and again on one new FedExCarrier instance
InitToken ==
    /\ NoCall
    /\ QuietUnit
    /\ QuietToken

NextToken ==
    \/ GetAccessToken
    \/ ExchangeResponse
    \/ Tick

SpecToken == InitToken /\ [][NextToken]_vars

\* ------------------------------------------------------------ claims

AllCredentials(sett) ==
    /\ TruthyText(sett.fedexApiKey)
    /\ TruthyText(sett.fedexSecretKey)
    /\ TruthyText(sett.fedexAccountNumber)

NoRemoteCalls ==
    /\ lookups = 0
    /\ geoQueried = << >>
    /\ carrierCalls = 0
    /\ tokenRequests = 0
    /\ rateRequests = 0

\* C1: getDeliveryEstimate never throws.  No exception leaves the call, whatever
\* its collaborators do; the call ends with a DeliveryEstimate (success true, or
\* success false with an error text); and whenever an exception reached the
\* boundary catch the value is {success:false, error:'Failed to calculate
\* delivery estimate'}.
C1_NeverThrows ==
    /\ ~escaped
    /\ pc = "done" => /\ result # Null
                      /\ result.success \/ TruthyText(result.error)
    /\ outerCaught => result = [success |-> FALSE,
                                error |-> <<"Failed to calculate delivery estimate">>]

\* an exception thrown while the carrier's response was formatted was caught
C1_Witness == pc = "done" /\ outerCaught /\ settings # Null /\ rateRequests = 1

\* C3: configuration failures end the request at step 1.  With no settings row
\* the result is exactly {success:false, error:"App not configured for this
\* shop"}, with a row whose isEnabled is false it is exactly {success:false,
\* error:"Delivery estimates are disabled"}, and in both cases no postal lookup,
\* geolocation request or carrier call is ever issued.
C3_ConfigurationFailures ==
    /\ (db = Null \/ ~db.isEnabled) => NoRemoteCalls
    /\ (pc = "done" /\ ~outerCaught /\ db = Null)
           => result = [success |-> FALSE, error |-> <<"App not configured for this shop">>]
    /\ (pc = "done" /\ ~outerCaught /\ db # Null /\ ~db.isEnabled)
           => result = [success |-> FALSE, error |-> <<"Delivery estimates are disabled">>]

\* a disabled shop with credentials and a postal code override was refused
C3_Witness ==
    /\ pc = "done"
    /\ db # Null
    /\ ~db.isEnabled
    /\ AllCredentials(db)
    /\ TruthyText(postalCode)
    /\ result = [success |-> FALSE, error |-> <<"Delivery estimates are disabled">>]

\* C4: a carrier is constructed and getTransitTime is called if and only if all
\* three credential fields of the settings are present.  Any carrier activity
\* implies the three fields are truthy and were handed to the carrier; once the
\* credential check of step 5 has run, getTransitTime was called exactly once
\* when they are all truthy and not at all otherwise.
C4_CarrierIffCredentials ==
    /\ (carrierCalls > 0 \/ tokenRequests > 0 \/ rateRequests > 0)
           => /\ settings # Null
              /\ AllCredentials(settings)
              /\ credentials = [apiKey |-> settings.fedexApiKey,
                                secretKey |-> settings.fedexSecretKey,
                                accountNumber |-> settings.fedexAccountNumber]
    /\ shipDate # Null => carrierCalls = (IF AllCredentials(settings) THEN 1 ELSE 0)

\* the carrier was called and quoted a rate
C4_Witness == pc = "done" /\ carrierCalls = 1 /\ rateRequests = 1 /\ ~usedFallback

\* C5: for a configured, enabled shop the estimate carries isFallback:true
\* exactly when generateFallbackEstimate produced it, and once the fallback
\* decision was reached that is exactly when the carrier was not called, threw,
\* or returned success:false; an estimate built from a successful carrier
\* response never carries isFallback.
C5_FallbackFlag ==
    (pc = "done" /\ ~escaped /\ settings # Null /\ settings.isEnabled)
        => /\ Has(result, "isFallback") => result.isFallback /\ result.success
           /\ Has(result, "isFallback") <=> usedFallback
           /\ shipDate # Null
                  => (usedFallback <=> \/ carrierCalls = 0
                                       \/ innerCaught
                                       \/ ~transitResult.success)

\* the token exchange failed and the estimate is the marked fallback estimate
C5_Witness ==
    /\ pc = "done"
    /\ tokenRequests = 1
    /\ rateRequests = 0
    /\ "token" \in faults
    /\ Has(result, "isFallback")
    /\ result.isFallback

\* C2: for a shop whose settings row was read with isEnabled = true,
\* getDeliveryEstimate returns success:true whatever the postal-code lookup, the
\* geolocation services and the carrier answer.
C2_EnabledAlwaysSucceeds ==
    (pc = "done" /\ settings # Null /\ settings.isEnabled)
        => result # Null /\ result.success

\* the degraded destination of lines 57-62
DegradedLocation(code) ==
    [postalCode |-> code, city |-> << >>, region |-> << >>, countryCode |-> <<"US">>]

\* the part of C6 about the destination: with an override no geolocation request
\* is issued and the default is not used, the destination is the lookup's
\* location, and exactly the degraded location when the lookup answered null
C6_DestinationFromLookup ==
    TruthyText(postalCode)
        => /\ geoQueried = << >>
           /\ ~defaultUsed
           /\ lookupReturned = "null" => destination = DegradedLocation(postalCode)
           /\ lookupReturned = "location" => /\ destination.source = "postal-code-lookup"
                                             /\ destination.postalCode = postalCode

\* C6: with a postal code override the destination comes only from the
\* postal-code lookup (no geolocation, no default); when the lookup answers null
\* the destination is exactly {postalCode: the override, city:"", region:"",
\* countryCode:"US"} and the estimate is still computed with success:true.
C6_OverrideUsesLookupOnly ==
    /\ C6_DestinationFromLookup
    /\ (TruthyText(postalCode) /\ pc = "done" /\ lookupReturned = "null")
           => result # Null /\ result.success

\* the client address is null, empty or a private-range address
AddressAbsent(ip) ==
    \/ ~ip.given
    \/ Len(ip.list) = 0
    \/ isPrivateIP([name |-> ip.list[1].name, octets |-> ip.list[1].octets])

StaticDefault ==
    [city |-> <<"Kansas City">>, region |-> <<"MO">>, postalCode |-> <<6, 4, 1, 0, 6>>,
     countryCode |-> <<"US">>, source |-> "default"]

\* C7 as stated: without an override, when the client address is absent or every
\* geolocation attempt failed, the destination is the static default location.
C7_DefaultWhenAddressAbsent ==
    (~TruthyText(postalCode) /\ destination # Null
        /\ (AddressAbsent(customerIP) \/ geoFailed = Len(GEOLOCATION_SERVICES)))
        => destination = StaticDefault

\* C7 as amended: without an override the destination is the static default
\* location {Kansas City, MO, 64106, US, source default} exactly when every
\* geolocation service failed to yield a location with a postal code.  An absent
\* client address does not select the default by itself: the services are
\* still queried, with an empty address, and a location they yield is used.
C7_DefaultWhenAllFail ==
    (~TruthyText(postalCode) /\ destination # Null)
        => /\ destination = StaticDefault <=> geoFailed = Len(GEOLOCATION_SERVICES)
           /\ lookups = 0
           /\ Len(geoQueried) >= 1
           /\ \A i \in 1..Len(geoQueried) :
                /\ geoQueried[i].service = GEOLOCATION_SERVICES[i]
                /\ AddressAbsent(customerIP) => geoQueried[i].ip = EmptyIP
           /\ destination # StaticDefault
                  => /\ destination.source = GEOLOCATION_SERVICES[Len(geoQueried)]
                     /\ TruthyText(destination.postalCode)

\* the address was absent, all three services failed, the default was used
C7_Witness ==
    /\ ~TruthyText(postalCode)
    /\ AddressAbsent(customerIP)
    /\ geoFailed = Len(GEOLOCATION_SERVICES)
    /\ destination = StaticDefault
    /\ pc = "done"

\* C8: FedExCarrier.getTransitTime never throws.  No exception leaves the call;
\* with missing credentials, a failed token exchange, a network failure, a non-OK
\* rate response, a malformed body or a response without rate details it returns
\* exactly {success:false, error, carrier:"fedex"} with a non-empty error.
C8_GetTransitTimeNeverThrows ==
    /\ ~escaped
    /\ pc = "cdone"
           => /\ transitResult # Null
              /\ ~validateCredentials(credentials)
                     => /\ "credentials" \in faults
                        /\ tokenRequests = 0
                        /\ rateRequests = 0
              /\ faults # {} => ~transitResult.success
              /\ ~transitResult.success
                     => /\ DOMAIN transitResult = {"success", "error", "carrier"}
                        /\ TruthyText(transitResult.error)
                        /\ transitResult.carrier = "fedex"

\* the token exchange answered non-OK and the call returned the failure
C8_Witness ==
    /\ pc = "cdone"
    /\ "token" \in faults
    /\ transitResult = [success |-> FALSE,
                        error |-> <<"FedEx OAuth failed: ", "remote detail">>,
                        carrier |-> "fedex"]

\* C9: every TransitTimeResponse that reaches the fallback decision has, when
\* success is true, deliveryDateMin and a positive transitDays, and when success
\* is false, an error and none of deliveryDateMin, deliveryDateMax, transitDays.
C9_TransitResponseInvariant ==
    (pc = "decide" /\ transitResult # Null)
        => IF transitResult.success
           THEN /\ Has(transitResult, "deliveryDateMin")
                /\ Has(transitResult, "transitDays")
                /\ transitResult.transitDays >= 1
           ELSE /\ Has(transitResult, "error")
                /\ ~Has(transitResult, "deliveryDateMin")
                /\ ~Has(transitResult, "deliveryDateMax")
                /\ ~Has(transitResult, "transitDays")

\* C10: every DeliveryEstimate with success = true has deliveryDateMin,
\* deliveryDateMax, displayText, transitDays and a non-empty location.
C10_DisplayFieldsPopulated ==
    (pc = "done" /\ result # Null /\ result.success)
        => /\ \A f \in {"deliveryDateMin", "deliveryDateMax", "displayText", "transitDays",
                        "location"} : Has(result, f)
           /\ TruthyText(result.location)

\* C12: calculateShipDate, for every handlingDays >= 0, every now and every
\* processingDays set the merchant saved, returns a date whose weekday is in
\* processingDays, and when now is at or past the cutoff the date lies on a
\* calendar day strictly after now's.
C12_ShipDateOnProcessingDay ==
    (call.fn = "calculateShipDate" /\ outcome # Null)
        => /\ GetDay(outcome.returned) \in call.processingDays
           /\ call.now.tod >= call.cutoffTod => outcome.returned.day > call.now.day

\* C13: the cutoff comparison is inclusive.  A request at exactly the cutoff
\* instant, like any later one, gets the ship date of a request made tomorrow
\* before the cutoff, on a calendar day after today; a request strictly before
\* the cutoff gets the ship date counted from today, which with no handling days
\* on a weekday is today itself.
C13_CutoffInclusive ==
    (call.fn = "calculateShipDate" /\ outcome # Null)
        => LET now == call.now
               h == call.handlingDays
           IN IF now.tod >= call.cutoffTod
              THEN /\ outcome.returned = calculateShipDate(NextDay(now), h, now.tod + 1)
                   /\ outcome.returned.day > now.day
              ELSE /\ outcome.returned = calculateShipDate(now, h, now.tod + 1)
                   /\ (h = 0 /\ GetDay(now) \in 1..5) => outcome.returned = now

\* a request at exactly the cutoff on a weekday shipped the next day
C13_Witness ==
    /\ call.fn = "calculateShipDate"
    /\ call.now.tod = call.cutoffTod
    /\ call.handlingDays = 0
    /\ GetDay(call.now) \in 1..4
    /\ outcome # Null
    /\ outcome.returned = MkDate(call.now.day + 1, call.now.tod)

\* C14: addBusinessDays(d, 0) returns d unchanged, and for every start date d
\* and every n >= 0, addBusinessDays(d, n + 1) is strictly later than
\* addBusinessDays(d, n); both for the orchestrator's copy and the carrier's.
C14_AddBusinessDaysIncreasing ==
    (call.fn \in {"addBusinessDays", "carrierAddBusinessDays"} /\ outcome # Null)
        => LET next == IF call.fn = "addBusinessDays"
                       THEN addBusinessDays(call.startDate, call.days + 1)
                       ELSE carrierAddBusinessDays(call.startDate, call.days + 1)
           IN /\ call.days = 0 => outcome.returned = call.startDate
              /\ outcome.returned.valid
              /\ outcome.returned.day >= call.startDate.day + call.days
              /\ DateLess(outcome.returned, next)

\* one business day added to a Friday gave the Monday after
C14_Witness ==
    /\ call.fn = "addBusinessDays"
    /\ GetDay(call.startDate) = 5
    /\ call.days = 1
    /\ outcome # Null
    /\ outcome.returned = MkDate(call.startDate.day + 3, call.startDate.tod)

\* a postal code of five digits
FiveDigits(zip) == Len(zip) = 5 /\ \A i \in 1..5 : zip[i] \in 0..9

\* the integer its first three digits spell
Prefix3(zip) == zip[1] * 100 + zip[2] * 10 + zip[3]

\* C15: estimateTransitDays returns 5 when either postal code is absent;
\* otherwise, with diff the absolute difference of the integers spelled by the
\* first three digits of the two codes, it returns 2 if diff < 50, 3 if
\* 50 <= diff < 200, 4 if 200 <= diff < 400, 5 if 400 <= diff < 600 and 6 if
\* diff >= 600.
C15_ZoneBands ==
    (call.fn = "estimateTransitDays" /\ outcome # Null)
        => IF call.originZip = << >> \/ call.destZip = << >>
           THEN outcome.returned = 5
           ELSE (FiveDigits(call.originZip) /\ FiveDigits(call.destZip))
                    => LET a == Prefix3(call.originZip)
                           b == Prefix3(call.destZip)
                           diff == IF a < b THEN b - a ELSE a - b
                       IN outcome.returned = CASE diff < 50 -> 2
                                               [] diff >= 50 /\ diff < 200 -> 3
                                               [] diff >= 200 /\ diff < 400 -> 4
                                               [] diff >= 400 /\ diff < 600 -> 5
                                               [] diff >= 600 -> 6

\* prefixes exactly 50 apart gave three days
C15_Witness ==
    /\ call.fn = "estimateTransitDays"
    /\ call.originZip = <<0, 0, 0, 0, 1>>
    /\ call.destZip = <<0, 5, 0, 0, 1>>
    /\ outcome = [returned |-> 3]

\* C16: estimateTransitDays is symmetric and total: for any two five-digit
\* codes a and b it returns a value in {2, 3, 4, 5, 6}, and the same value as for
\* b and a.
C16_ZoneSymmetric ==
    (call.fn = "estimateTransitDays" /\ FiveDigits(call.originZip) /\ FiveDigits(call.destZip))
        => /\ ENABLED CallEstimateTransitDays \/ outcome # Null
           /\ outcome # Null
                  => /\ outcome.returned \in {2, 3, 4, 5, 6}
                     /\ outcome.returned = estimateTransitDays(call.destZip, call.originZip)

\* the larger prefix as origin gave six days, as the swapped pair does
C16_Witness ==
    /\ call.fn = "estimateTransitDays"
    /\ call.originZip = <<6, 0, 0, 0, 1>>
    /\ call.destZip = <<0, 0, 0, 0, 1>>
    /\ outcome = [returned |-> 6]

LeadingInteger(description) == ParseDigits(description, NoNum)

\* the first run of digits anywhere in a text, as an integer; NoNum without digits
FirstInteger(description) ==
    LET digitAt == {i \in 1..Len(description) : description[i] # NonDigit}
    IN IF digitAt = {}
       THEN NoNum
       ELSE LET first == CHOOSE i \in digitAt : \A j \in digitAt : i <= j
                last == CHOOSE i \in digitAt :
                            /\ i >= first
                            /\ \A k \in first..i : k \in digitAt
                            /\ i + 1 \notin digitAt
                spell[k \in (first - 1)..last] ==
                    IF k < first THEN 0 ELSE spell[k - 1] * 10 + description[k]
            IN spell[last]

\* a successful parseRateResponse of a reply without an explicit delivery date
WindowCase ==
    /\ call.fn = "parseRateResponse"
    /\ outcome # Null
    /\ call.data.kind = "reply"
    /\ ~Has(call.data.commit, "dayFormat")

\* the window of the response is v and v + 2 business days from the ship date
WindowIs(v) ==
    /\ outcome.returned.success
    /\ outcome.returned.deliveryDateMin = carrierAddBusinessDays(call.shipDate, v)
    /\ outcome.returned.deliveryDateMax = carrierAddBusinessDays(call.shipDate, v + 2)

\* C20 as stated: without an explicit delivery date, the transit days are the
\* remote-quoted day count if present, else the leading integer of the transit
\* description, else 3; deliveryDateMin and deliveryDateMax are that many, and
\* two more, business days after the ship date.
C20_WindowFromTransitSignal ==
    WindowCase
        => LET commit == call.data.commit
               leading == IF Has(commit, "description")
                          THEN LeadingInteger(commit.description) ELSE NoNum
           IN WindowIs(IF Has(commit, "transitDays") THEN commit.transitDays
                       ELSE IF leading # NoNum THEN leading ELSE 3)

\* C20 as amended: without an explicit delivery date, the transit days are the
\* remote-quoted day count if it is not zero, else the first run of digits found
\* anywhere in the transit description if that is not zero, else 3;
\* deliveryDateMin and deliveryDateMax are that many, and two more, business days
\* after the ship date.
C20_WindowFromNonZeroSignal ==
    WindowCase
        => LET commit == call.data.commit
               quoted == IF Has(commit, "transitDays") THEN commit.transitDays ELSE 0
               found == IF Has(commit, "description")
                        THEN FirstInteger(commit.description) ELSE NoNum
           IN WindowIs(IF quoted # 0 THEN quoted
                       ELSE IF found # NoNum /\ found # 0 THEN found ELSE 3)

\* a quoted count of zero was passed over for the description "in 1 day"
C20_Witness ==
    /\ WindowCase
    /\ call.data.commit = [transitDays |-> 0, description |-> <<NonDigit, 1>>]
    /\ outcome.returned.deliveryDateMin = carrierAddBusinessDays(call.shipDate, 1)
    /\ outcome.returned.deliveryDateMin # call.shipDate

\* C11: a carrier remote call (token exchange or rate quote) that never
\* responds is cut off by a timeout and treated as a carrier failure: whenever
\* getDeliveryEstimate waits for the token exchange or the rate quote, the call
\* eventually returns.
C11_CarrierCallBounded == (pc = "token" \/ pc = "rate") ~> (pc = "done")

\* the error texts getDeliveryEstimate may report
FixedErrors ==
    {<<"App not configured for this shop">>,
     <<"Delivery estimates are disabled">>,
     <<"Failed to calculate delivery estimate">>}

\* texts of caught exceptions, of the carrier's error field and of remote error bodies
InternalTexts ==
    {"remote detail", "FedEx OAuth failed: ", "fetch failed", "Unexpected end of JSON input",
     "FedEx credentials not configured", "Failed to get rate quote",
     "No rate details in response", "Failed to parse rate response",
     "Invalid time value", "database detail", "carrier detail"}

\* the fields a DeliveryEstimate may carry
EstimateFields ==
    {"success", "error", "deliveryDateMin", "deliveryDateMax", "displayText", "location",
     "transitDays", "isFallback"}

\* C18: the error field of every DeliveryEstimate that getDeliveryEstimate
\* returns is one of a fixed set of short texts, a successful estimate has no
\* error field, and no text of a caught exception, of the carrier's error field
\* or of a remote error body appears in any field of the estimate.
C18_NoInternalDetail ==
    (pc = "done" /\ result # Null)
        => /\ DOMAIN result \subseteq EstimateFields
           /\ IF result.success
              THEN ~Has(result, "error")
              ELSE DOMAIN result = {"success", "error"} /\ result.error \in FixedErrors
           /\ \A f \in {"error", "location"} \cap DOMAIN result :
                /\ \A i \in 1..Len(result[f]) : result[f][i] \notin InternalTexts
                /\ (transitResult # Null /\ Has(transitResult, "error"))
                       => result[f] # transitResult.error

\* the rate request was refused with a remote error text and an estimate was returned
C18_Witness ==
    /\ pc = "done"
    /\ result # Null
    /\ "notok" \in faults
    /\ transitResult = [success |-> FALSE, error |-> <<"remote detail">>, carrier |-> "fedex"]

\* a token is cached and the clock is earlier than the declared expiry of the
\* response it came from, less five minutes
BeforeMargin ==
    /\ TruthyText(accessToken)
    /\ declared # Null
    /\ declared.expiresIn # NoNum
    /\ clock < declared.issuedAt + declared.expiresIn - 5 * 60

\* C19: on one carrier instance, a getAccessToken call made while a token is
\* cached and the time is earlier than its declared expiry less five minutes
\* returns that token without a remote exchange and leaves the cache alone; a
\* call made at or after that instant issues one exchange, and the response
\* replaces the cached token and its expiry; a token declared to live five
\* minutes or less is never served from the cache.
C19_TokenCache ==
    [][/\ lastCall'.n = lastCall.n + 1
           => IF BeforeMargin
              THEN /\ lastCall'.fromCache
                   /\ lastCall'.token = accessToken
                   /\ declared.expiresIn > 5 * 60
                   /\ exchanges' = exchanges
                   /\ UNCHANGED <<accessToken, tokenExpiry, declared, tokenPc>>
              ELSE /\ ~lastCall'.fromCache
                   /\ exchanges' = exchanges + 1
                   /\ \E c \in Callers : tokenPc[c] = "idle" /\ tokenPc'[c] = "exchange"
       /\ (\E c \in Callers : tokenPc[c] = "exchange" /\ tokenPc'[c] = "idle")
           => \/ UNCHANGED <<accessToken, tokenExpiry, declared>>
              \/ /\ declared'.issuedAt = clock
                 /\ declared'.expiresIn # NoNum
                        => /\ tokenExpiry'.valid
                           /\ tokenExpiry'.at + 5 * 60 = clock + declared'.expiresIn
      ]_vars

\* the first call exchanged, the second was served from the cache, and the
\* third, at or after the declared expiry less five minutes, exchanges again
C19_Witness ==
    /\ lastCall = [n |-> 3, fromCache |-> FALSE, token |-> << >>]
    /\ exchanges = 2
    /\ TruthyText(accessToken)
    /\ declared.expiresIn > 5 * 60
    /\ clock >= declared.issuedAt + declared.expiresIn - 5 * 60

\* a successful parseRateResponse of a reply with an explicit, parseable delivery date
ExplicitCase ==
    /\ call.fn = "parseRateResponse"
    /\ outcome # Null
    /\ call.data.kind = "reply"
    /\ Has(call.data.commit, "dayFormat")
    /\ call.data.commit.dayFormat.valid

\* the date one business day after d: the next calendar day that is no
\* Saturday or Sunday, at d's time of day
PlusOneBusinessDay(d) ==
    MkDate(CHOOSE x \in (d.day + 1)..(d.day + 3) :
               /\ x % 7 \notin {0, 6}
               /\ \A y \in (d.day + 1)..(x - 1) : y % 7 \in {0, 6},
           d.tod)

\* the number of weekdays on the calendar days strictly after start's day up to
\* and including end's day
WeekdaysBetween(start, end) ==
    Cardinality({x \in (start.day + 1)..end.day : x % 7 \notin {0, 6}})

\* the response has deliveryDateMin = D, deliveryDateMax = D plus one business
\* day, and the given transitDays
ExplicitIs(days) ==
    /\ outcome.returned.success
    /\ outcome.returned.deliveryDateMin = call.data.commit.dayFormat
    /\ outcome.returned.deliveryDateMax = PlusOneBusinessDay(call.data.commit.dayFormat)
    /\ outcome.returned.transitDays = days

\* C21: with an explicit delivery date D the successful response has
\* deliveryDateMin = D, deliveryDateMax = D plus one business day, and
\* transitDays = the day count the remote supplied (quoted, or else written in
\* the description), otherwise businessDaysBetween(shipDate, D), the number of
\* weekdays after the ship date's day up to and including D's day.
C21_ExplicitDeliveryDate ==
    ExplicitCase
        => LET commit == call.data.commit
               found == IF Has(commit, "description")
                        THEN FirstInteger(commit.description) ELSE NoNum
           IN ExplicitIs(IF Has(commit, "transitDays") THEN commit.transitDays
                         ELSE IF found # NoNum THEN found
                         ELSE WeekdaysBetween(call.shipDate, commit.dayFormat))

\* the part of C21 that holds: the two dates are D and D plus one business day,
\* and transitDays is the first of the quoted count, the count in the
\* description and calculateBusinessDays(shipDate, D) that is not zero
C21_ExplicitDateAsComputed ==
    ExplicitCase
        => LET commit == call.data.commit
               quoted == IF Has(commit, "transitDays") THEN commit.transitDays ELSE 0
               found == IF Has(commit, "description")
                        THEN FirstInteger(commit.description) ELSE NoNum
           IN ExplicitIs(IF quoted # 0 THEN quoted
                         ELSE IF found # NoNum /\ found # 0 THEN found
                         ELSE calculateBusinessDays(call.shipDate, commit.dayFormat))

\* C22: businessDaysBetween(start, end) is the number of weekdays (Monday to
\* Friday) on the calendar days strictly after start's day up to and including
\* end's day, whatever the two times of day, and 0 whenever end <= start.
C22_BusinessDaysBetween ==
    (call.fn = "calculateBusinessDays" /\ outcome # Null)
        => /\ outcome.returned = WeekdaysBetween(call.startDate, call.endDate)
           /\ ~DateLess(call.startDate, call.endDate) => outcome.returned = 0

\* C23: the fallback estimate has transitDays = estimateTransitDays(origin postal
\* code, destination postal code), deliveryDateMin = addBusinessDays(shipDate,
\* transitDays) and deliveryDateMax = addBusinessDays(shipDate, transitDays + 2),
\* is successful and marked isFallback; when the warehouse's and the
\* destination's three-digit prefixes differ by 30, transitDays is 2.
C23_FallbackEstimate ==
    (call.fn = "generateFallbackEstimate" /\ outcome # Null)
        => LET estimate == outcome.returned
               transitDays == estimateTransitDays(WarehousePostalCode, call.dest.postalCode)
           IN /\ estimate.success
              /\ estimate.isFallback
              /\ estimate.transitDays = transitDays
              /\ estimate.deliveryDateMin = ToISOString(addBusinessDays(call.ship, transitDays))
              /\ estimate.deliveryDateMax =
                     ToISOString(addBusinessDays(call.ship, transitDays + 2))
              /\ (/\ FiveDigits(call.dest.postalCode)
                  /\ Abs(Prefix3(call.dest.postalCode) - Prefix3(WarehousePostalCode)) = 30)
                     => estimate.transitDays = 2

\* a fallback estimate for a destination whose prefix is 30 away from the warehouse's
C23_Witness ==
    /\ call.fn = "generateFallbackEstimate"
    /\ outcome # Null
    /\ Abs(Prefix3(call.dest.postalCode) - Prefix3(WarehousePostalCode)) = 30
    /\ outcome.returned.transitDays = 2
    /\ outcome.returned.isFallback

\* C24: for an order placed at or after the cutoff the ship date is handlingDays
\* business days counted from the first business day after now's calendar day;
\* with handlingDays = 0 it is that next business day itself.
C24_ClockStartsNextBusinessDay ==
    (/\ call.fn = "calculateShipDate"
     /\ outcome # Null
     /\ DateGeq(call.now, MkDate(call.now.day, call.cutoffTod)))
        => outcome.returned =
               addBusinessDays(SkipWeekend(NextDay(call.now)), call.handlingDays)

\* the part of C24 that holds: the claim for orders placed Sunday to Thursday,
\* and for every order when handlingDays = 0
C24_ClockStartsNextDay ==
    (/\ call.fn = "calculateShipDate"
     /\ outcome # Null
     /\ DateGeq(call.now, MkDate(call.now.day, call.cutoffTod))
     /\ (call.handlingDays = 0 \/ call.now.day % 7 \notin {5, 6}))
        => outcome.returned =
               addBusinessDays(SkipWeekend(NextDay(call.now)), call.handlingDays)

\* a request to the carrier is awaited
CarrierInFlight == pc \in {"token", "rate"}

\* C25: the destination is resolved, every geolocation and postal-code lookup
\* call included, before the ship date is computed and before any request goes
\* to the carrier: once a ship date exists or a carrier was called there is a
\* destination, it does not change any more and no geolocation or lookup call
\* is made, and none is awaited while a carrier request is in flight.
C25_ResolutionBeforeCarrier ==
    /\ []((shipDate # Null \/ carrierCalls > 0 \/ tokenRequests > 0 \/ rateRequests > 0)
             => (destination # Null /\ pc \notin {"lookup", "geo"}))
    /\ [][(shipDate' # shipDate \/ carrierCalls' # carrierCalls
              \/ tokenRequests' # tokenRequests \/ rateRequests' # rateRequests
              \/ shipDate # Null \/ CarrierInFlight)
             => /\ destination # Null
                /\ destination' = destination
                /\ lookups' = lookups
                /\ geoQueried' = geoQueried]_vars

\* a rate request is in flight after all three geolocation services were asked
C25_Witness ==
    /\ pc = "rate"
    /\ Len(geoQueried) = 3
    /\ destination # Null
    /\ shipDate # Null

\* the i-th provider's answer is a body its parser turns into a location with a
\* non-empty postal code; a failed request, a timeout, a non-OK status and a
\* body without a location or without a postal code do not yield
Yields(i, answer) ==
    /\ answer.kind = "json"
    /\ ServiceParse(i, answer.data) # Null
    /\ TruthyText(ServiceParse(i, answer.data).postalCode)

\* C26: getLocationFromIP tries the providers in their fixed order, each at most
\* once, with the cleaned address; a provider is asked only after every earlier
\* one failed to yield; the call returns the location of the first provider that
\* yields one with a non-empty postal code, tagged with that provider's name as
\* source, and asks no provider after it; when all are exhausted it returns null.
C26_ProvidersInOrder ==
    /\ [](call.fn = "getLocationFromIP"
            => LET n == Len(geoQueried)
                   yielding == {i \in 1..Len(GEOLOCATION_SERVICES) : Yields(i, call.answers[i])}
               IN /\ n <= Len(GEOLOCATION_SERVICES)
                  /\ \A i \in 1..n :
                       /\ geoQueried[i].service = <<"ip-api", "ipapi.co", "ipinfo.io">>[i]
                       /\ geoQueried[i].ip = cleanIPAddress(call.ipAddress)
                       /\ i < n => i \notin yielding
                  /\ outcome # Null
                       => IF yielding = {}
                          THEN n = Len(GEOLOCATION_SERVICES) /\ outcome.returned = Null
                          ELSE /\ n \in yielding
                               /\ outcome.returned =
                                      ServiceParse(n, call.answers[n].data)
                                          @@ [source |-> geoQueried[n].service]
                               /\ TruthyText(outcome.returned.postalCode))
    /\ [][(call.fn = "getLocationFromIP" /\ outcome # Null)
             => geoQueried' = geoQueried]_vars

\* the third provider's location is returned after the first two failed
C26_Witness ==
    /\ call.fn = "getLocationFromIP"
    /\ outcome # Null
    /\ outcome.returned # Null
    /\ Len(geoQueried) = 3
    /\ outcome.returned.source = "ipinfo.io"

\* C27: the location text is "{city}, {region}" when both are non-empty,
\* otherwise the city if it is non-empty, otherwise the region if it is
\* non-empty, otherwise the country code.
C27_LocationText ==
    (call.fn = "formatLocation" /\ outcome # Null)
        => LET city == call.location.city
               region == call.location.region
           IN outcome.returned =
                  CASE city # << >> /\ region # << >> -> <<city[1], ", ", region[1]>>
                    [] city # << >> /\ region = << >> -> city
                    [] city = << >> /\ region # << >> -> region
                    [] OTHER -> call.location.countryCode

\* a location with city and region was formatted
C27_Witness ==
    /\ call.fn = "formatLocation"
    /\ outcome # Null
    /\ call.location.city # << >>
    /\ call.location.region # << >>
    /\ outcome.returned = <<"Summerville", ", ", "SC">>

\* the cached token and the cached expiry were set from one exchange response
CachedPairFromOneResponse ==
    IF declared = Null
    THEN accessToken = << >> /\ tokenExpiry = Null
    ELSE /\ accessToken = declared.token
         /\ tokenExpiry.valid <=> declared.expiresIn # NoNum
         /\ tokenExpiry.valid
                => tokenExpiry.at + 5 * 60 = declared.issuedAt + declared.expiresIn

\* C28: under any interleaving of overlapping getAccessToken calls on one carrier
\* instance the cached accessToken and tokenExpiry come from the same exchange
\* response, and while one exchange is in flight with no valid token cached,
\* another call does not issue a second exchange.
C28_TokenCacheConcurrencySafe ==
    /\ []CachedPairFromOneResponse
    /\ [][((\E c \in Callers : tokenPc[c] = "exchange") /\ ~CacheValid)
             => exchanges' = exchanges]_vars

\* the part of C28 that holds: the cached pair is never torn
C28_CachedPairNeverTorn == CachedPairFromOneResponse

\* C29: in every successful response built without an explicit delivery date the
\* reported transitDays agrees with the reported window: deliveryDateMin is
\* transitDays business days after the ship date and deliveryDateMax is
\* transitDays + 2 business days after it, also when the reply carries no
\* transit signal at all.
C29_TransitDaysAgreeWithWindow ==
    WindowCase => WindowIs(outcome.returned.transitDays)

\* the part of C29 that holds: the agreement when the reply carries a transit signal
C29_AgreeWhenSignalled ==
    (WindowCase /\ CommitTransitDays(call.data.commit) \notin {0, NoNum})
        => WindowIs(outcome.returned.transitDays)

\* the instant a lies before the instant b
Earlier(a, b) == a.day < b.day \/ (a.day = b.day /\ a.tod < b.tod)

\* C30: in every DeliveryEstimate with success = true, built from a carrier
\* response or by the fallback, the dates are ordered: the computed ship date is
\* not after deliveryDateMin, and deliveryDateMin is before deliveryDateMax.
C30_DatesOrdered ==
    (pc = "done" /\ result # Null /\ result.success)
        => /\ ~Earlier(result.deliveryDateMin, shipDate)
           /\ Earlier(result.deliveryDateMin, result.deliveryDateMax)

\* the part of C30 that holds: deliveryDateMin is before deliveryDateMax in every
\* successful estimate, and the fallback's deliveryDateMin is not before the ship date
C30_WindowOrdered ==
    (pc = "done" /\ result # Null /\ result.success)
        => /\ usedFallback => ~Earlier(result.deliveryDateMin, shipDate)
           /\ Earlier(result.deliveryDateMin, result.deliveryDateMax)

====
